---- MODULE Spec2Model ----
(***************************************************************************)
(* FastifyTransport (src/src/mcp/transports/fastify.ts): the request /     *)
(* response correlation transport.  One transport instance, the calls made *)
(* on it (start, send, close), and the timers armed by correlated sends.   *)
(*                                                                         *)
(* A correlated send() creates one "call": a promise, its timer and the    *)
(* registry entry holding the wrapped resolve/reject closures.  Calls are  *)
(* numbered 1..nCalls in the order of creation; the registry requestMap    *)
(* maps a request id to the number of the call whose closures it holds.    *)
(*                                                                         *)
(* FileLogger and streamToEditor (src/unnamed/part_003, src/main.ts): the  *)
(* logger's in-memory log with its load and its queued saves, and the loop *)
(* that writes a streamed response body into the editor.  Each has its own *)
(* specification (LoggerSpec, StreamSpec); the transport's specifications  *)
(* leave their variables as constructed.                                   *)
(***************************************************************************)
EXTENDS Integers, FiniteSets, Sequences, TLC

\* ---------------------------------------------------------------- bounds
\* number of correlated send() calls that may be made in one behaviour
MaxCalls == 2
\* start() may bind the POST route at most this many times in one behaviour
MaxRoutes == 2
\* number of POSTs the route handler may be handling at the same time
MaxPosts == 2
\* correlated send() calls made in the behaviours of AdapterSpec
MaxAdapterCalls == 1

\* calls of error / warn / info / debug / clearLogs made on the logger in
\* one behaviour, besides the log call initialize() makes
MaxLogs == 2

\* chunks a streamed response body delivers
MaxChunks == 2

\* ------------------------------------------------------------- constants
\* updateThreshold = 50 // ms between updates
updateThreshold == 50
DEFAULT_REQUEST_TIMEOUT == 30000
\* if (this.logEntries.length > 1000) this.logEntries = this.logEntries.slice(-1000)
MaxEntries == 1000
\* LogEntry['level']
Levels == {"error", "warn", "info", "debug"}

requestTimeout == DEFAULT_REQUEST_TIMEOUT

\* the request ids the callers use (RequestId values)
Ids == {1, 2}
\* options.relatedRequestId / message.id === undefined
NoId == 0
CallNos == 1..MaxCalls

\* members of a response envelope
Absent == "absent"
Results == {"r1"}
\* message.error: a falsy member (null), an object with an empty message,
\* an object with a message
Falsy == "falsy"
ErrorMembers == {Falsy, "", "boom"}

\* The envelopes send() distinguishes: a method-bearing message (a
\* notification without id, or a request; send() never reads the id of a
\* method-bearing message, so one request id stands for all), or a message
\* without method carrying id / result / error members.
Messages ==
  [method : {TRUE}, id : {NoId, 1}, result : {Absent}, error : {Absent}]
  \cup
  [method : {FALSE}, id : Ids,
   result : {Absent}, error : ErrorMembers \cup {Absent}]
  \cup
  [method : {FALSE}, id : Ids \cup {NoId},
   result : Results, error : {Absent, "boom"}]

\* TransportSendOptions: relatedRequestId, and whether both onresumptiontoken
\* and resumptionToken are given
Options == [relatedRequestId : Ids \cup {NoId}, token : BOOLEAN]

\* the send() calls made: relatedRequestId accompanies method-bearing messages
SendInputs ==
  {in \in [msg : Messages, opts : Options] :
     in.msg.method \/ in.opts.relatedRequestId = NoId}

NoMessage == [method |-> FALSE, id |-> NoId, result |-> Absent, error |-> Absent]
NoOptions == [relatedRequestId |-> NoId, token |-> FALSE]

\* values a promise settles with
NoValue == [tag |-> "none", id |-> NoId, text |-> ""]
UndefinedValue == [tag |-> "undefined", id |-> NoId, text |-> ""]
ResultValue(r) == [tag |-> "result", id |-> NoId, text |-> r]

\* this.messageHandler: null, or one of the handlers the upper layer sets
NoHandler == "null"
Handlers == {"h1", "h2"}

\* this.onmessage: undefined, or the callback the protocol layer assigns
NoCallback == "undefined"
OnmessageCallbacks == {"protocol onmessage"}
\* this.onclose: undefined, or the hook the server wiring assigns
OncloseHooks == {"wiring onclose"}

\* request.body of a POST: a response envelope, a request envelope, or a
\* body that is no envelope at all (the cast does not check it)
MalformedBody == NoMessage
PostBodies ==
  {[method |-> FALSE, id |-> 1, result |-> "r1", error |-> Absent],
   [method |-> TRUE, id |-> 1, result |-> Absent, error |-> Absent],
   MalformedBody}

\* the replies of the route handler
NoReply == [status |-> 0, code |-> 0, id |-> "none", message |-> ""]
\* reply.status(200).send({ jsonrpc: '2.0', result: null })
AckReply == [status |-> 200, code |-> 0, id |-> "absent", message |-> "result null"]
\* reply.status(500).send({ error: { code: -32603, message: 'Message handler not set' }, id: null })
HandlerNotSetReply ==
  [status |-> 500, code |-> -32603, id |-> "null", message |-> "Message handler not set"]
\* reply.status(500).send({ error: { code: -32603, message: 'Internal server error', data }, id: null })
InternalErrorReply ==
  [status |-> 500, code |-> -32603, id |-> "null", message |-> "Internal server error"]

\* a slot of the route handler: idle, or awaiting the handler with a body
PostSlots == 1..MaxPosts
IdleSlot == [busy |-> FALSE, msg |-> NoMessage]
BusySlot(body) == [busy |-> TRUE, msg |-> body]

VARIABLES
  isConnected,   \* this.isConnected
  requestMap,    \* this.requestMap: request id -> call whose entry it holds
  routes,        \* number of POST routes bound on the server by start()
  nCalls,        \* number of promises created by correlated send()
  calls,         \* per call: id, timer, promise, settlement history
  messageHandler,\* this.messageHandler: the handler set, or NoHandler (null)
  inflight,      \* POSTs whose route handler awaits this.messageHandler(message)
  oncloseCalls,  \* number of invocations of the onclose hook
  onclose,       \* this.onclose: the hook assigned, or NoCallback
  onmessage,     \* this.onmessage: the callback assigned, or NoCallback
  last           \* the operation that produced this state and its outcome

\* FileLogger (src/unnamed/part_003)
VARIABLES
  vault,         \* this.vault: null until initialize()
  logEntries,    \* this.logEntries
  isSaving,      \* this.isSaving
  saveQueue,     \* this.saveQueue: the deferred saves
  disk,          \* what the vault holds at the path of the log file
  loading,       \* the loadLogs() call suspended at `await this.vault.read`
  ops,           \* vault operations awaited by saveLogs() calls
  nLogs,         \* number of calls of error / warn / info / debug so far
  nClears,       \* number of calls of clearLogs() so far
  logHist        \* what the last FileLogger step did

loggerVars == <<vault, logEntries, isSaving, saveQueue, disk, loading, ops,
                nLogs, nClears, logHist>>

\* streamToEditor (src/unnamed/part_003) and the streaming loop of
\* sendRequest (src/main.ts)
VARIABLES
  doc,            \* the text of the editor, a sequence of characters
  cursor,         \* the editor's cursor {line, ch}
  remaining,      \* the chunks the reader has still to deliver
  streamPc,       \* where the streaming function is
  caller,         \* the function that runs the loop
  result,         \* let result
  insertPosition, \* const insertPosition
  now,            \* the clock Date.now() reads, in ms
  lastUpdate,     \* let lastUpdate
  streamHist      \* the chunks received, the editor text and offset at the
                  \* start of the loop, the value returned

streamVars == <<doc, cursor, remaining, streamPc, caller, result,
                insertPosition, now, lastUpdate, streamHist>>

transportVars == <<isConnected, requestMap, routes, nCalls, calls,
                   messageHandler, inflight, oncloseCalls, onmessage, onclose,
                   last>>

vars == <<transportVars, loggerVars, streamVars>>

\* a call slot not yet created
NoCall ==
  [id |-> NoId, timer |-> "none", promise |-> "none", value |-> NoValue,
   resolves |-> 0, rejects |-> 0, removed |-> "none"]

\* ------------------------------------------------------------ Error values
\* new Error(`Request ${requestId} timed out after ${this.requestTimeout}ms`)
TimeoutError(id) == [tag |-> "timed out", id |-> id, text |-> ToString(requestTimeout)]
\* new Error(`Request ${String(requestId)} was cancelled due to transport closure`)
ClosedError(id) == [tag |-> "cancelled", id |-> id, text |-> ""]
\* new Error(message.error.message || 'Unknown error')
ResponseError(e) ==
  [tag |-> "error", id |-> NoId, text |-> IF e = "" THEN "Unknown error" ELSE e]

\* --------------------------------------------------------- timers, promises
\* clearTimeout(timeout): an armed timer never fires; otherwise no effect
clearTimeout(cs, c) ==
  IF cs[c].timer = "armed" THEN [cs EXCEPT ![c].timer = "cleared"] ELSE cs

\* the promise's own resolve(): counted; settles only a pending promise
PromiseResolve(cs, c, v) ==
  [cs EXCEPT ![c].resolves = @ + 1,
             ![c].promise = IF @ = "pending" THEN "resolved" ELSE @,
             ![c].value = IF cs[c].promise = "pending" THEN v ELSE @]

\* the promise's own reject(): counted; settles only a pending promise
PromiseReject(cs, c, e) ==
  [cs EXCEPT ![c].rejects = @ + 1,
             ![c].promise = IF @ = "pending" THEN "rejected" ELSE @,
             ![c].value = IF cs[c].promise = "pending" THEN e ELSE @]

\* the entry's resolve closure: () => { clearTimeout(timeout); resolve(); }
\* The argument the caller passes is not a parameter of the closure.
EntryResolve(cs, c, v) == PromiseResolve(clearTimeout(cs, c), c, UndefinedValue)

\* the entry's reject closure: (error) => { clearTimeout(timeout); reject(error); }
EntryReject(cs, c, e) == PromiseReject(clearTimeout(cs, c), c, e)

\* record that the entry of call c left the registry, and why
MarkRemoved(cs, c, why) == [cs EXCEPT ![c].removed = why]

\* this.requestMap.delete(id)
MapDelete(m, id) == [k \in (DOMAIN m) \ {id} |-> m[k]]

\* this.requestMap.set(id, c)
MapSet(m, id, c) == [k \in (DOMAIN m) \cup {id} |-> IF k = id THEN c ELSE m[k]]

Op(name, msg, opts, c, outcome, token) ==
  [op |-> name, msg |-> msg, opts |-> opts, call |-> c,
   outcome |-> outcome, token |-> token,
   slot |-> 0, handler |-> NoHandler, reply |-> NoReply]

\* what a step of the POST route handler did: the slot it ran in, the
\* handler it invoked (or NoHandler), the reply it sent (or NoReply)
PostOp(name, body, slot, outcome, handler, reply) ==
  [Op(name, body, NoOptions, 0, outcome, FALSE)
     EXCEPT !.slot = slot, !.handler = handler, !.reply = reply]

\* ------------------------------------------------------------------- Init
TransportInit ==
  /\ isConnected = FALSE
  /\ requestMap = << >>
  /\ routes = 0
  /\ nCalls = 0
  /\ calls = [c \in CallNos |-> NoCall]
  /\ messageHandler = NoHandler
  /\ inflight = [p \in PostSlots |-> IdleSlot]
  /\ oncloseCalls = 0
  /\ onmessage = NoCallback
  /\ onclose = NoCallback
  /\ last = Op("new", NoMessage, NoOptions, 0, "ok", FALSE)

\* ------------------------------------------------------------------ start
\* this.server.post(...) accepted: the route is bound, isConnected is set
StartBinds ==
  /\ routes < MaxRoutes
  /\ routes' = routes + 1
  /\ isConnected' = TRUE
  /\ last' = Op("start", NoMessage, NoOptions, 0, "ok", FALSE)
  /\ UNCHANGED <<requestMap, nCalls, calls,
                 messageHandler, inflight, oncloseCalls,
                 onmessage, onclose, loggerVars, streamVars>>

\* this.server.post(...) throws: start() fails before isConnected is set.
\* The server is not part of the transport: post throws on a server that
\* refuses the declaration (a route declared before), and on a this.server
\* that has no post method (the options object the wiring passes)
StartRouteRefused ==
  /\ last' = Op("start", NoMessage, NoOptions, 0, "route refused", FALSE)
  /\ UNCHANGED <<isConnected, requestMap, routes, nCalls, calls,
                 messageHandler, inflight, oncloseCalls,
                 onmessage, onclose, loggerVars, streamVars>>

\* mutant: start() without the already-started check
StartUnguarded == StartBinds \/ StartRouteRefused

\* start(): throws when already started; otherwise binds the POST route and
\* sets isConnected.
Start ==
  IF isConnected
  THEN /\ last' = Op("start", NoMessage, NoOptions, 0, "already started", FALSE)
       /\ UNCHANGED <<isConnected, requestMap, routes, nCalls, calls,
                   messageHandler, inflight, oncloseCalls,
                 onmessage, onclose, loggerVars, streamVars>>
  ELSE StartBinds \/ StartRouteRefused

\* ------------------------------------------------------------------- send
\* mutant: a send() on a transport that is not connected is silently ignored
SendNotConnectedIgnored(msg, opts) ==
  /\ last' = Op("send", msg, opts, 0, "ok", opts.token)
  /\ UNCHANGED <<isConnected, requestMap, routes, nCalls, calls,
                   messageHandler, inflight, oncloseCalls,
                 onmessage, onclose, loggerVars, streamVars>>

\* mutant: the connection check comes after the resumption token callback
SendNotConnectedAfterTail(msg, opts) ==
  /\ last' = Op("send", msg, opts, 0, "not connected", opts.token)
  /\ UNCHANGED <<isConnected, requestMap, routes, nCalls, calls,
                 messageHandler, inflight, oncloseCalls,
                 onmessage, onclose, loggerVars, streamVars>>

\* if (!this.isConnected) throw new Error('FastifyTransport is not connected')
SendNotConnected(msg, opts) ==
  /\ last' = Op("send", msg, opts, 0, "not connected", FALSE)
  /\ UNCHANGED <<isConnected, requestMap, routes, nCalls, calls,
                   messageHandler, inflight, oncloseCalls,
                 onmessage, onclose, loggerVars, streamVars>>

\* 'method' in message, options.relatedRequestId !== undefined:
\* return new Promise(...): arm the timer, set the entry, return the promise.
\* Map.set replaces whatever entry the id had.
SendCorrelated(msg, opts) ==
  LET id == opts.relatedRequestId
      c == nCalls + 1
      old == IF id \in DOMAIN requestMap
             THEN MarkRemoved(calls, requestMap[id], "replaced")
             ELSE calls
  IN /\ nCalls < MaxCalls
     /\ nCalls' = c
     /\ calls' = [old EXCEPT ![c] = [NoCall EXCEPT !.id = id,
                                                   !.timer = "armed",
                                                   !.promise = "pending"]]
     /\ requestMap' = MapSet(requestMap, id, c)
     /\ last' = Op("send", msg, opts, c, "pending", FALSE)
     /\ UNCHANGED <<isConnected, routes,
                   messageHandler, inflight, oncloseCalls,
                 onmessage, onclose, loggerVars, streamVars>>

\* the statements after the message dispatch: the resumption token callback
\* is invoked when both it and the token are given; send() then resolves.
SendTail(msg, opts, c) ==
  last' = Op("send", msg, opts, c, "ok", opts.token)

\* message.id !== undefined && ('result' in message || 'error' in message)
IsResponse(msg) ==
  /\ ~msg.method
  /\ msg.id # NoId
  /\ (msg.result # Absent \/ msg.error # Absent)

\* mutant: the response settles the oldest created call whose promise is
\* pending (correlation by order of sending) instead of the entry found
SettleEntryOldest(cs, c, msg) ==
  LET waiting == {d \in CallNos : cs[d].promise = "pending"}
      o == IF waiting = {} THEN c
           ELSE CHOOSE d \in waiting : \A e \in waiting : d <= e
  IN MarkRemoved(EntryResolve(clearTimeout(cs, o), o, ResultValue(msg.result)),
                 c, "response")

\* mutant: the response path settles the waiter through the promise's own
\* callbacks and leaves the timer armed
SettleEntryKeepsTimer(cs, c, msg) ==
  MarkRemoved(IF msg.result # Absent
              THEN PromiseResolve(cs, c, UndefinedValue)
              ELSE IF msg.error # Falsy
                   THEN PromiseReject(cs, c, ResponseError(msg.error))
                   ELSE cs,
              c, "response")

\* the body of `if (pendingRequest) { ... }` applied to the calls
SettleEntry(cs, c, msg) ==
  LET cleared == clearTimeout(cs, c)
      settled == IF msg.result # Absent
                 THEN EntryResolve(cleared, c, ResultValue(msg.result))
                 ELSE IF msg.error # Falsy
                      THEN EntryReject(cleared, c, ResponseError(msg.error))
                      ELSE cleared
  IN MarkRemoved(settled, c, "response")

\* a response whose id has an entry: settle it, delete the entry
SendResponseMatched(msg, opts) ==
  LET c == requestMap[msg.id]
  IN /\ calls' = SettleEntry(calls, c, msg)
     /\ requestMap' = MapDelete(requestMap, msg.id)
     /\ SendTail(msg, opts, c)
     /\ UNCHANGED <<isConnected, routes, nCalls,
                   messageHandler, inflight, oncloseCalls,
                 onmessage, onclose, loggerVars, streamVars>>

\* mutant: a response that finds no entry makes send() throw
SendOtherThrows(msg, opts) ==
  /\ last' = Op("send", msg, opts, 0,
                IF IsResponse(msg) THEN "unknown id" ELSE "ok", opts.token)
  /\ UNCHANGED <<isConnected, requestMap, routes, nCalls, calls,
                   messageHandler, inflight, oncloseCalls,
                 onmessage, onclose, loggerVars, streamVars>>

\* every other message: nothing but the statements after the dispatch
SendOther(msg, opts) ==
  /\ SendTail(msg, opts, 0)
  /\ UNCHANGED <<isConnected, requestMap, routes, nCalls, calls,
                   messageHandler, inflight, oncloseCalls,
                 onmessage, onclose, loggerVars, streamVars>>

\* mutant: every request (a method-bearing message with an id) is registered
\* under relatedRequestId, present or not
SendRegistersEveryRequest(msg, opts) ==
  IF ~isConnected THEN SendNotConnected(msg, opts)
  ELSE IF msg.method /\ (opts.relatedRequestId # NoId \/ msg.id # NoId)
       THEN SendCorrelated(msg, opts)
  ELSE IF IsResponse(msg) /\ msg.id \in DOMAIN requestMap
       THEN SendResponseMatched(msg, opts)
  ELSE SendOther(msg, opts)

\* send(message, options): the dispatch on connection state and message shape
Send(msg, opts) ==
  IF ~isConnected THEN SendNotConnected(msg, opts)
  ELSE IF msg.method /\ opts.relatedRequestId # NoId THEN SendCorrelated(msg, opts)
  ELSE IF IsResponse(msg) /\ msg.id \in DOMAIN requestMap
       THEN SendResponseMatched(msg, opts)
  ELSE SendOther(msg, opts)

\* mutant: the timer callback rejects but leaves the entry in the registry
TimerFireKeepsEntry(c) ==
  /\ calls[c].timer = "armed"
  /\ calls' = PromiseReject([calls EXCEPT ![c].timer = "fired"], c,
                            TimeoutError(calls[c].id))
  /\ last' = Op("timer", NoMessage, NoOptions, c, "ok", FALSE)
  /\ UNCHANGED <<isConnected, requestMap, routes, nCalls,
                   messageHandler, inflight, oncloseCalls,
                 onmessage, onclose, loggerVars, streamVars>>

\* ------------------------------------------------------------ timer expiry
\* the setTimeout callback of call c:
\*   this.requestMap.delete(requestId); reject(new Error(...timed out...))
TimerFire(c) ==
  LET id == calls[c].id
      fired == [calls EXCEPT ![c].timer = "fired"]
      gone == IF id \in DOMAIN requestMap
              THEN MarkRemoved(fired, requestMap[id],
                               IF requestMap[id] = c THEN "timeout" ELSE "other timeout")
              ELSE fired
  IN /\ calls[c].timer = "armed"
     /\ requestMap' = MapDelete(requestMap, id)
     /\ calls' = PromiseReject(gone, c, TimeoutError(id))
     /\ last' = Op("timer", NoMessage, NoOptions, c, "ok", FALSE)
     /\ UNCHANGED <<isConnected, routes, nCalls,
                   messageHandler, inflight, oncloseCalls,
                 onmessage, onclose, loggerVars, streamVars>>

\* ------------------------------------------------------------------ close
\* for (const [id, { reject, timeout }] of this.requestMap.entries())
\*   { clearTimeout(timeout); reject(new Error(...cancelled...)) }
RECURSIVE RejectAll(_, _, _)
RejectAll(cs, m, ids) ==
  IF ids = {} THEN cs
  ELSE LET id == CHOOSE i \in ids : TRUE
           c == m[id]
           rejected == EntryReject(clearTimeout(cs, c), c, ClosedError(id))
       IN RejectAll(MarkRemoved(rejected, c, "close"), m, ids \ {id})

\* if (this.onclose) { this.onclose(); }: the hook runs when one is assigned
OncloseInvoked ==
  IF onclose # NoCallback THEN oncloseCalls + 1 ELSE oncloseCalls

\* mutant: close() clears the timers and the map but rejects no waiter
CloseWithoutReject ==
  /\ isConnected
  /\ calls' = [c \in CallNos |->
                IF \E id \in DOMAIN requestMap : requestMap[id] = c
                THEN [calls[c] EXCEPT !.timer = "cleared", !.removed = "close"]
                ELSE calls[c]]
  /\ requestMap' = << >>
  /\ isConnected' = FALSE
  /\ last' = Op("close", NoMessage, NoOptions, 0, "ok", FALSE)
  /\ oncloseCalls' = OncloseInvoked
  /\ UNCHANGED <<routes, nCalls, messageHandler, inflight,
                 onmessage, onclose, loggerVars, streamVars>>

\* mutant: close() rejects the waiters but does not clear the map
CloseKeepsEntries ==
  IF ~isConnected
  THEN /\ last' = Op("close", NoMessage, NoOptions, 0, "not connected", FALSE)
       /\ UNCHANGED <<isConnected, requestMap, routes, nCalls, calls,
                   messageHandler, inflight, oncloseCalls,
                 onmessage, onclose, loggerVars, streamVars>>
  ELSE /\ calls' = RejectAll(calls, requestMap, DOMAIN requestMap)
       /\ isConnected' = FALSE
       /\ last' = Op("close", NoMessage, NoOptions, 0, "ok", FALSE)
       /\ oncloseCalls' = OncloseInvoked
       /\ UNCHANGED <<requestMap, routes, nCalls, messageHandler, inflight,
                 onmessage, onclose, loggerVars, streamVars>>

\* close(): returns at once when not connected; otherwise rejects every
\* entry, clears the map, resets isConnected and calls the onclose hook
\* when one is assigned (the server wiring assigns transport.onclose).
Close ==
  IF ~isConnected
  THEN /\ last' = Op("close", NoMessage, NoOptions, 0, "not connected", FALSE)
       /\ UNCHANGED <<isConnected, requestMap, routes, nCalls, calls,
                   messageHandler, inflight, oncloseCalls,
                 onmessage, onclose, loggerVars, streamVars>>
  ELSE /\ calls' = RejectAll(calls, requestMap, DOMAIN requestMap)
       /\ requestMap' = << >>
       /\ isConnected' = FALSE
       /\ last' = Op("close", NoMessage, NoOptions, 0, "ok", FALSE)
       /\ oncloseCalls' = OncloseInvoked
       /\ UNCHANGED <<routes, nCalls, messageHandler, inflight,
                 onmessage, onclose, loggerVars, streamVars>>

\* ------------------------------------------------------ setMessageHandler
\* setMessageHandler(handler): this.messageHandler = handler
SetMessageHandler(h) ==
  /\ messageHandler' = h
  /\ last' = PostOp("setMessageHandler", NoMessage, 0, "ok", h, NoReply)
  /\ UNCHANGED <<isConnected, requestMap, routes, nCalls, calls,
                 inflight, oncloseCalls,
                 onmessage, onclose, loggerVars, streamVars>>

\* transport.onclose = hook: the property the server wiring assigns after
\* connecting the protocol layer
SetOnclose(hook) ==
  /\ onclose' = hook
  /\ last' = PostOp("set onclose", NoMessage, 0, "ok", NoHandler, NoReply)
  /\ UNCHANGED <<isConnected, requestMap, routes, nCalls, calls,
                 messageHandler, inflight, oncloseCalls, onmessage,
                 loggerVars, streamVars>>

\* transport.onmessage = callback: the property the protocol layer assigns
\* when it is connected to the transport
SetOnmessage(cb) ==
  /\ onmessage' = cb
  /\ last' = PostOp("set onmessage", NoMessage, 0, "ok", NoHandler, NoReply)
  /\ UNCHANGED <<isConnected, requestMap, routes, nCalls, calls,
                 messageHandler, inflight, oncloseCalls, onclose,
                 loggerVars, streamVars>>

\* ------------------------------------------------------ POST route handler
\* mutant: without a handler the route handler throws instead of replying
PostHandlerNotSetThrows(body) ==
  /\ last' = PostOp("post", body, 0, "threw", NoHandler, NoReply)
  /\ UNCHANGED <<isConnected, requestMap, routes, nCalls, calls,
                 messageHandler, inflight, oncloseCalls,
                 onmessage, onclose, loggerVars, streamVars>>

\* if (!this.messageHandler) return reply.status(500).send(...)
PostHandlerNotSet(body) ==
  /\ last' = PostOp("post", body, 0, "handler not set", NoHandler,
                    HandlerNotSetReply)
  /\ UNCHANGED <<isConnected, requestMap, routes, nCalls, calls,
                 messageHandler, inflight, oncloseCalls,
                 onmessage, onclose, loggerVars, streamVars>>

\* const message = request.body; await this.messageHandler(message):
\* the handler is invoked with the body and the route handler waits for it
PostForwarded(body) ==
  /\ \E p \in PostSlots : ~inflight[p].busy
  /\ LET p == CHOOSE q \in PostSlots :
                 ~inflight[q].busy /\ \A r \in PostSlots : ~inflight[r].busy => q <= r
     IN /\ inflight' = [inflight EXCEPT ![p] = BusySlot(body)]
        /\ last' = PostOp("post", body, p, "handler invoked", messageHandler,
                          NoReply)
  /\ UNCHANGED <<isConnected, requestMap, routes, nCalls, calls,
                 messageHandler, oncloseCalls,
                 onmessage, onclose, loggerVars, streamVars>>

\* mutant: without a message handler the route handler delivers the body to
\* the onmessage callback
PostArrivesFallsBack(body) ==
  /\ routes >= 1
  /\ IF messageHandler # NoHandler THEN PostForwarded(body)
     ELSE IF onmessage = NoCallback THEN PostHandlerNotSet(body)
     ELSE /\ last' = PostOp("post", body, 0, "handler invoked", onmessage,
                            AckReply)
          /\ UNCHANGED <<isConnected, requestMap, routes, nCalls, calls,
                         messageHandler, inflight, oncloseCalls,
                         onmessage, onclose, loggerVars, streamVars>>

\* a POST reaches the route bound by start()
PostArrives(body) ==
  /\ routes >= 1
  /\ IF messageHandler = NoHandler
     THEN PostHandlerNotSet(body)
     ELSE PostForwarded(body)

\* mutant: no catch block: a handler that throws leaves the POST unanswered
HandlerSettlesNoCatch(p, threw) ==
  /\ inflight[p].busy
  /\ inflight' = [inflight EXCEPT ![p] = IdleSlot]
  /\ last' = PostOp("reply", inflight[p].msg, p,
                    IF threw THEN "handler threw" ELSE "handler returned",
                    NoHandler,
                    IF threw THEN NoReply ELSE AckReply)
  /\ UNCHANGED <<isConnected, requestMap, routes, nCalls, calls,
                 messageHandler, oncloseCalls,
                 onmessage, onclose, loggerVars, streamVars>>

\* the awaited handler returns: reply 200; it throws or rejects: the catch
\* block replies 500
HandlerSettles(p, threw) ==
  /\ inflight[p].busy
  /\ inflight' = [inflight EXCEPT ![p] = IdleSlot]
  /\ last' = PostOp("reply", inflight[p].msg, p,
                    IF threw THEN "handler threw" ELSE "handler returned",
                    NoHandler,
                    IF threw THEN InternalErrorReply ELSE AckReply)
  /\ UNCHANGED <<isConnected, requestMap, routes, nCalls, calls,
                 messageHandler, oncloseCalls,
                 onmessage, onclose, loggerVars, streamVars>>

\* ======================================================================
\* FileLogger (src/unnamed/part_003): the in-memory log, its load from and
\* its saves to the log file of the vault.  The logger runs on one thread;
\* a step is the code between two awaits.
\* ======================================================================
\* private logFile = 'session-log.json', as the sequence of its segments
logFile == <<"session-log.json">>
\* this.logFile.split('/').slice(0, -1).join('/')
dir == SubSeq(logFile, 1, Len(logFile) - 1)

NoVault == "null"
TheVault == "vault"

\* a LogEntry: its level and its message; the n-th log call logs message n
Entry(level, n) == [level |-> level, message |-> n]
\* an entry written by an earlier session
OldEntry == Entry("info", 0)
\* a log file filled up to the cap by earlier sessions
FullLog == [i \in 1..MaxEntries |-> OldEntry]

\* JSON.stringify(this.logEntries, null, 2): the text of an array of entries
Stringify(es) == [json |-> "array", text |-> es]
\* a file content JSON.parse throws on
Corrupt == [json |-> "syntax error", text |-> << >>]
NoContent == [json |-> "none", text |-> << >>]
\* JSON.parse(content): throws unless the content is valid JSON
ParseThrows(content) == content.json # "array"
Parse(content) == content.text

\* this.vault.getAbstractFileByPath(this.logFile): null, a TFile, a folder
Missing == [kind |-> "missing", content |-> NoContent]
Folder == [kind |-> "folder", content |-> NoContent]
File(content) == [kind |-> "file", content |-> content]
Disks == {Missing, Folder, File(Corrupt),
          File(Stringify(<<OldEntry>>)), File(Stringify(FullLog))}

\* a vault operation a saveLogs() call awaits
VaultOp(kind, content) == [kind |-> kind, content |-> content]

NotLoading == [status |-> "none", content |-> NoContent]
Reading(content) == [status |-> "reading", content |-> content]
Loaded == [status |-> "done", content |-> NoContent]

\* the part of the logger saveLogs() works on
SaveState == [isSaving |-> isSaving, saveQueue |-> saveQueue, ops |-> ops,
              serialised |-> logHist.serialised]

RECURSIVE saveLogs(_, _, _, _)
RECURSIVE SaveFinally(_, _, _, _)
\* mutant: saveLogs() without the isSaving check
saveLogsUnguarded(L, v, es, d) ==
  IF v = NoVault THEN L
  ELSE LET content == Stringify(es)
           started == [L EXCEPT !.isSaving = TRUE, !.serialised = content]
       IN IF d.kind = "file"
          THEN [started EXCEPT !.ops = Append(@, VaultOp("modify", content))]
          ELSE IF d.kind = "folder"
          THEN SaveFinally(started, v, es, d)
          ELSE [started EXCEPT !.ops = Append(@, VaultOp("create", content))]

\* saveLogs() up to its first await (or its return); the finally block of
\* a saveLogs() call starts the next deferred save
saveLogs(L, v, es, d) ==
  IF v = NoVault THEN L
  ELSE IF L.isSaving
  THEN [L EXCEPT !.saveQueue = Append(@, "saveLogs")]
  ELSE LET content == Stringify(es)
           started == [L EXCEPT !.isSaving = TRUE, !.serialised = content]
       IN IF d.kind = "file"
          THEN [started EXCEPT !.ops = Append(@, VaultOp("modify", content))]
          ELSE IF d.kind = "folder"
          THEN SaveFinally(started, v, es, d)
          ELSE IF dir # << >>
          THEN [started EXCEPT !.ops = Append(@, VaultOp("createFolder", content))]
          ELSE [started EXCEPT !.ops = Append(@, VaultOp("create", content))]

\* finally { this.isSaving = false; const nextSave = this.saveQueue.shift();
\*           if (nextSave) await nextSave(); }
SaveFinally(L, v, es, d) ==
  LET done == [L EXCEPT !.isSaving = FALSE]
  IN IF done.saveQueue = << >> THEN done
     ELSE saveLogs([done EXCEPT !.saveQueue = Tail(@)], v, es, d)

\* this.logEntries.push(entry); keep only the last 1000 entries
Push(es, entry) ==
  LET pushed == Append(es, entry)
  IN IF Len(pushed) > MaxEntries
     THEN SubSeq(pushed, Len(pushed) - MaxEntries + 1, Len(pushed))
     ELSE pushed

\* what a FileLogger step did: the operation, its outcome, the content most
\* recently serialised by a save, the entries as the latest addEntry or
\* clearLogs left them, and the number of log calls made when initialize()
\* returned
Hist(name, outcome, serialised, afterAdd, initN) ==
  [op |-> name, outcome |-> outcome, serialised |-> serialised,
   afterAdd |-> afterAdd, initN |-> initN]

LoggerNew ==
  /\ vault = NoVault
  /\ logEntries = << >>
  /\ isSaving = FALSE
  /\ saveQueue = << >>
  /\ loading = NotLoading
  /\ ops = << >>
  /\ nLogs = 0
  /\ nClears = 0
  /\ logHist = Hist("new", "ok", NoContent, << >>, 0)

\* the calls made on the logger so far, the log call of initialize() aside
LoggerCalls == nLogs - (IF vault = NoVault THEN 0 ELSE 1) + nClears

\* addEntry(level, message, details): push, cap, saveLogs()
AddEntry(level, v, load, initN) ==
  LET es == Push(logEntries, Entry(level, nLogs + 1))
      L == saveLogs(SaveState, v, es, disk)
  IN /\ logEntries' = es
     /\ nLogs' = nLogs + 1
     /\ isSaving' = L.isSaving
     /\ saveQueue' = L.saveQueue
     /\ ops' = L.ops
     /\ vault' = v
     /\ loading' = load
     /\ logHist' = Hist(IF v = vault THEN "log" ELSE "initialize",
                        IF v = NoVault THEN "no vault"
                        ELSE IF isSaving THEN "queued" ELSE "started",
                        L.serialised, es, initN)
     /\ UNCHANGED <<disk, nClears, transportVars, streamVars>>

\* error() / warn() / info() / debug()
Log(level) ==
  /\ LoggerCalls < MaxLogs
  /\ AddEntry(level, vault, loading, logHist.initN)

\* clearLogs(): this.logEntries = []; await this.saveLogs()
ClearLogs ==
  /\ LoggerCalls < MaxLogs
  /\ LET L == saveLogs(SaveState, vault, << >>, disk)
     IN /\ logEntries' = << >>
        /\ nClears' = nClears + 1
        /\ isSaving' = L.isSaving
        /\ saveQueue' = L.saveQueue
        /\ ops' = L.ops
        /\ logHist' = Hist("clearLogs",
                           IF vault = NoVault THEN "no vault"
                           ELSE IF isSaving THEN "queued" ELSE "started",
                           L.serialised, << >>, logHist.initN)
  /\ UNCHANGED <<vault, disk, loading, nLogs, transportVars, streamVars>>

\* initialize(vault): set the vault, start loadLogs() (which runs up to
\* `await this.vault.read(file)` when the log file exists), log
\* 'Logger initialized'
Initialize ==
  /\ vault = NoVault
  /\ AddEntry("info", TheVault,
              IF disk.kind = "file" THEN Reading(disk.content) ELSE Loaded,
              nLogs + 1)

\* loadLogs() resumes: this.logEntries = JSON.parse(content), or [] when the
\* read was rejected or the content does not parse
LoadResumes(readOk) ==
  /\ loading.status = "reading"
  /\ loading' = Loaded
  /\ logEntries' = IF readOk /\ ~ParseThrows(loading.content)
                   THEN Parse(loading.content)
                   ELSE << >>
  /\ logHist' = [logHist EXCEPT !.op = "load",
                                !.outcome = IF readOk /\ ~ParseThrows(loading.content)
                                            THEN "parsed" ELSE "reset"]
  /\ UNCHANGED <<vault, isSaving, saveQueue, disk, ops, nLogs, nClears,
                 transportVars, streamVars>>

Remove(seq, i) == SubSeq(seq, 1, i - 1) \o SubSeq(seq, i + 1, Len(seq))

\* the vault operation ops[i] settles and its saveLogs() call resumes:
\* after modify / create / adapter.write the finally block runs; a rejected
\* modify / create / createFolder enters the catch block, which awaits
\* adapter.write with the entries serialised anew
OpSettles(i, ok) ==
  /\ i \in 1..Len(ops)
  /\ LET op == ops[i]
         rest == [SaveState EXCEPT !.ops = Remove(ops, i)]
         written == IF ok /\ op.kind # "createFolder"
                    THEN File(op.content) ELSE disk
         fallback == Stringify(logEntries)
         L == IF op.kind = "write" \/ (ok /\ op.kind # "createFolder")
              THEN SaveFinally(rest, vault, logEntries, written)
              ELSE IF ok
              THEN [rest EXCEPT !.ops = Append(@, VaultOp("create", op.content))]
              ELSE [rest EXCEPT !.ops = Append(@, VaultOp("write", fallback)),
                                !.serialised = fallback]
     IN /\ disk' = written
        /\ isSaving' = L.isSaving
        /\ saveQueue' = L.saveQueue
        /\ ops' = L.ops
        /\ logHist' = [logHist EXCEPT !.op = "settle",
                                      !.outcome = IF ok THEN op.kind
                                                  ELSE "failed",
                                      !.serialised = L.serialised]
  /\ UNCHANGED <<vault, logEntries, loading, nLogs, nClears,
                 transportVars, streamVars>>

\* ======================================================================
\* streamToEditor (src/unnamed/part_003) / the streaming branch of
\* sendRequest (src/main.ts): read the chunks of a response body, decode
\* them, and write them into the editor.  The two run the same loop; they
\* differ in what comes before it and in what a failure leaves in the editor.
\* ======================================================================
\* the bytes of a body: ASCII characters, and the two bytes of one
\* two-byte UTF-8 character
LeadByte == "C3"
ContinuationByte == "A9"
TwoByteChar == "e-acute"
ReplacementChar == "U+FFFD"

\* new TextDecoder().decode(value): a decoder of its own for every chunk,
\* so the bytes of a character split between two chunks are malformed input
\* in both and decode to replacement characters
RECURSIVE Decode(_)
Decode(bytes) ==
  IF bytes = << >> THEN << >>
  ELSE IF Head(bytes) = LeadByte
  THEN IF Len(bytes) >= 2 /\ bytes[2] = ContinuationByte
       THEN <<TwoByteChar>> \o Decode(SubSeq(bytes, 3, Len(bytes)))
       ELSE <<ReplacementChar>> \o Decode(Tail(bytes))
  ELSE IF Head(bytes) = ContinuationByte
  THEN <<ReplacementChar>> \o Decode(Tail(bytes))
  ELSE <<Head(bytes)>> \o Decode(Tail(bytes))

\* the values reader.read() delivers
Chunks == {<<"a">>, <<"b", "\n">>, <<LeadByte>>, <<ContinuationByte, "c">>}
RECURSIVE SeqsUpTo(_)
SeqsUpTo(n) ==
  IF n = 0 THEN {<< >>}
  ELSE LET shorter == SeqsUpTo(n - 1)
       IN shorter \cup {Append(q, ch) : q \in {r \in shorter : Len(r) = n - 1},
                                          ch \in Chunks}
Bodies == SeqsUpTo(MaxChunks)

\* ms that pass between two readings of the clock
Delays == {20, 50}

Pos(line, ch) == [line |-> line, ch |-> ch]
\* insertPos not given
NoPos == Pos(-1, -1)

\* the editor: a position {line, ch} of a text, as the number of characters
\* before it; a line beyond the last is the end of the text, a ch beyond
\* the end of the line is the end of the line
Newlines(text) == {i \in 1..Len(text) : text[i] = "\n"}
LineStart(text, line) ==
  IF line <= 0 THEN 0
  ELSE IF Cardinality(Newlines(text)) < line THEN Len(text)
  ELSE CHOOSE i \in Newlines(text) :
         Cardinality({j \in Newlines(text) : j <= i}) = line
LineEnd(text, line) ==
  LET later == {i \in Newlines(text) : i > LineStart(text, line)}
  IN IF later = {} THEN Len(text)
     ELSE (CHOOSE i \in later : \A j \in later : i <= j) - 1
Offset(text, pos) ==
  LET start == LineStart(text, pos.line)
      end == LineEnd(text, pos.line)
  IN IF start + pos.ch > end THEN end ELSE start + pos.ch

\* editor.replaceRange(text, from): insert the text at the position
replaceRange(text, ins, from) ==
  LET o == Offset(text, from)
  IN SubSeq(text, 1, o) \o ins \o SubSeq(text, o + 1, Len(text))

\* result.split('\n'): the number of lines, and the length of the last one
LinesLength(text) == Cardinality(Newlines(text)) + 1
LastLineLength(text) ==
  IF Newlines(text) = {} THEN Len(text)
  ELSE Len(text) - (CHOOSE i \in Newlines(text) : \A j \in Newlines(text) : j <= i)

\* editor.setCursor({ line: insertPosition.line + Math.max(0, lines.length - 1),
\*                    ch: lastLine.length })
CursorAfter(text, at) ==
  Pos(at.line + (IF LinesLength(text) - 1 > 0 THEN LinesLength(text) - 1 ELSE 0),
      LastLineLength(text))

\* the editors the function is called on: a text and its cursor
Editors == {[doc |-> << >>, cursor |-> Pos(0, 0)],
            [doc |-> <<"x", "\n", "y">>, cursor |-> Pos(0, 1)]}
\* the insertPos option: absent, or the start of the text
InsertPositions == {NoPos, Pos(0, 0)}

StreamHist(received, doc0, offset, returned) ==
  [received |-> received, doc0 |-> doc0, offset |-> offset,
   returned |-> returned]
NotReturned == <<"no value">>

\* editor.lastLine(): the number of the last line
lastLine(text) == Cardinality(Newlines(text))

\* const errorMarker: the opening fence of an error block (<fence> stands
\* for the three backquotes) and a line end
errorMarker == <<"<fence>error", "\n">>
\* const errorDetails of the catch of sendRequest, for an Error and for a
\* value that is no Error: every line of the template is one element, every
\* line end the character it is
ErrorDetails(isError) ==
  IF isError
  THEN <<"## Unhandled Error", "\n",
         "- **Type**: name", "\n",
         "- **Message**: message", "\n",
         "- **Time**: time", "\n",
         "\n",
         "### Stack Trace", "\n",
         "<fence>", "\n",
         "stack", "\n",
         "<fence>">>
  ELSE <<"## Unknown Error Type", "\n",
         "- **Time**: time", "\n",
         "\n",
         "### Error", "\n",
         "<fence>", "\n",
         "message", "\n",
         "<fence>">>
\* '\n' + errorMarker + errorDetails + a line end, the closing fence, a
\* line end
ErrorBlock(isError) ==
  <<"\n">> \o errorMarker \o ErrorDetails(isError) \o <<"\n", "<fence>", "\n">>

\* the catch of sendRequest: const endPos = editor.lastLine();
\* editor.setCursor(endPos); editor.replaceRange(block, editor.getCursor())
CatchWrites(text, isError) ==
  LET endPos == Pos(lastLine(text), 0)
  IN [doc |-> replaceRange(text, ErrorBlock(isError), endPos),
      cursor |-> endPos]

\* the functions that run the streaming loop
Callers == {"streamToEditor", "sendRequest"}
NoCaller == "none"

\* before the call
StreamNew ==
  /\ streamPc = "idle"
  /\ caller = NoCaller
  /\ result = << >>
  /\ insertPosition = NoPos
  /\ now = 0
  /\ lastUpdate = 0
  /\ streamHist = StreamHist(<< >>, << >>, 0, NotReturned)

\* streamToEditor up to the first reader.read(): no body: throw; otherwise
\* read the clock and the cursor, fix the insert position, and insert a new
\* line at the cursor when no insertPos is given
StreamStarts(hasBody, insertPos) ==
  /\ streamPc = "idle"
  /\ caller' = "streamToEditor"
  /\ IF ~hasBody
     THEN /\ streamPc' = "threw"
          /\ UNCHANGED <<doc, insertPosition, lastUpdate, streamHist>>
     ELSE LET at == IF insertPos # NoPos THEN insertPos
                    ELSE Pos(cursor.line + 1, 0)
              text == IF insertPos # NoPos THEN doc
                      ELSE replaceRange(doc, <<"\n">>, cursor)
          IN /\ streamPc' = "reading"
             /\ insertPosition' = at
             /\ doc' = text
             /\ lastUpdate' = now
             /\ streamHist' = StreamHist(<< >>, text, Offset(text, at), NotReturned)
  /\ UNCHANGED <<cursor, remaining, result, now, transportVars, loggerVars>>

\* the streaming branch of sendRequest up to the first reader.read(), from
\* the moment the POST has resolved with an ok response to a request with
\* stream set: read the cursor, fix the insert position, insert a new line
\* at the cursor; then no body: throw, and the catch of sendRequest writes
\* the error block at the last line and throws again; otherwise read the
\* clock
SendRequestStarts(hasBody) ==
  /\ streamPc = "idle"
  /\ caller' = "sendRequest"
  /\ LET at == Pos(cursor.line + 1, 0)
         text == replaceRange(doc, <<"\n">>, cursor)
         caught == CatchWrites(text, TRUE)
     IN /\ insertPosition' = at
        /\ streamHist' = StreamHist(<< >>, text, Offset(text, at), NotReturned)
        /\ IF ~hasBody
           THEN /\ streamPc' = "threw"
                /\ doc' = caught.doc
                /\ cursor' = caught.cursor
                /\ UNCHANGED lastUpdate
           ELSE /\ streamPc' = "reading"
                /\ doc' = text
                /\ lastUpdate' = now
                /\ UNCHANGED cursor
  /\ UNCHANGED <<remaining, result, now, transportVars, loggerVars>>

\* one round of the loop with done false: decode the chunk, append it to
\* result, write it at the insert position when the threshold has passed
\* since the last write, move the cursor
LoopRound(delay) ==
  /\ streamPc = "reading"
  /\ remaining # << >>
  /\ LET chunk == Decode(Head(remaining))
         text == result \o chunk
         clock == now + delay
         update == clock - lastUpdate >= updateThreshold
     IN /\ remaining' = Tail(remaining)
        /\ result' = text
        /\ now' = clock
        /\ doc' = IF update THEN replaceRange(doc, chunk, insertPosition) ELSE doc
        /\ lastUpdate' = IF update THEN clock ELSE lastUpdate
        /\ cursor' = CursorAfter(text, insertPosition)
        /\ streamHist' = [streamHist EXCEPT !.received = Append(@, chunk)]
  /\ UNCHANGED <<streamPc, caller, insertPosition, transportVars, loggerVars>>

\* done: break; editor.replaceRange(result, insertPosition); return result
LoopEnds ==
  /\ streamPc = "reading"
  /\ remaining = << >>
  /\ streamPc' = "returned"
  /\ doc' = replaceRange(doc, result, insertPosition)
  /\ streamHist' = [streamHist EXCEPT !.returned = result]
  /\ UNCHANGED <<cursor, remaining, caller, result, insertPosition, now,
                 lastUpdate, transportVars, loggerVars>>

\* the loop of streamToEditor
StreamReads(delay) == caller = "streamToEditor" /\ LoopRound(delay)
StreamEnds == caller = "streamToEditor" /\ LoopEnds

\* the loop of sendRequest: the same statements; its second write of the
\* chunk, under `if (done)`, comes after `if (done) break` and never runs
SendRequestReads(delay) == caller = "sendRequest" /\ LoopRound(delay)
SendRequestEnds == caller = "sendRequest" /\ LoopEnds

\* reader.read() rejects in streamToEditor: the error is logged and thrown
\* again
StreamFails ==
  /\ streamPc = "reading"
  /\ caller = "streamToEditor"
  /\ streamPc' = "threw"
  /\ UNCHANGED <<doc, cursor, remaining, caller, result, insertPosition, now,
                 lastUpdate, streamHist, transportVars, loggerVars>>

\* reader.read() rejects in sendRequest, with an Error or with another
\* value: the catch of sendRequest moves the cursor to the last line, writes
\* the error block there and throws again
SendRequestFails(isError) ==
  /\ streamPc = "reading"
  /\ caller = "sendRequest"
  /\ streamPc' = "threw"
  /\ LET caught == CatchWrites(doc, isError)
     IN /\ doc' = caught.doc
        /\ cursor' = caught.cursor
  /\ UNCHANGED <<remaining, caller, result, insertPosition, now, lastUpdate,
                 streamHist, transportVars, loggerVars>>

StreamNext ==
  \/ \E hasBody \in BOOLEAN, insertPos \in InsertPositions :
       StreamStarts(hasBody, insertPos)
  \/ \E delay \in Delays : StreamReads(delay)
  \/ StreamEnds
  \/ StreamFails
  \/ \E hasBody \in BOOLEAN : SendRequestStarts(hasBody)
  \/ \E delay \in Delays : SendRequestReads(delay)
  \/ SendRequestEnds
  \/ \E isError \in BOOLEAN : SendRequestFails(isError)

\* the state after construction: the transport, the logger singleton, and a
\* vault without a log file
Init ==
  /\ TransportInit
  /\ LoggerNew
  /\ disk = Missing
  /\ StreamNew
  /\ doc = << >>
  /\ cursor = Pos(0, 0)
  /\ remaining = << >>

\* a streaming call on one of the editors, for one of the bodies
StreamInit ==
  /\ TransportInit
  /\ LoggerNew
  /\ disk = Missing
  /\ StreamNew
  /\ \E e \in Editors : doc = e.doc /\ cursor = e.cursor
  /\ remaining \in Bodies

StreamSpec == StreamInit /\ [][StreamNext]_vars

\* a logger on one of the vaults
LoggerInit ==
  /\ TransportInit
  /\ LoggerNew
  /\ disk \in Disks
  /\ StreamNew
  /\ doc = << >>
  /\ cursor = Pos(0, 0)
  /\ remaining = << >>

LoggerNext ==
  \/ Initialize
  \/ \E level \in Levels : Log(level)
  \/ ClearLogs
  \/ \E readOk \in BOOLEAN : LoadResumes(readOk)
  \/ \E i \in 1..Len(ops), ok \in BOOLEAN : OpSettles(i, ok)

LoggerSpec == LoggerInit /\ [][LoggerNext]_vars

\* every read and every vault operation settles
FairLoggerSpec ==
  /\ LoggerSpec
  /\ WF_vars(\E readOk \in BOOLEAN : LoadResumes(readOk))
  /\ WF_vars(\E i \in 1..Len(ops), ok \in BOOLEAN : OpSettles(i, ok))


\* ------------------------------------------------------------------- Next
Next ==
  \/ Start
  \/ \E in \in SendInputs : Send(in.msg, in.opts)
  \/ \E c \in CallNos : TimerFire(c)
  \/ Close

Spec == Init /\ [][Next]_vars

\* Node fires every armed timer that is not cleared.
FairSpec == Spec /\ \A c \in CallNos : WF_vars(TimerFire(c))

\* The transport together with its HTTP endpoint: the upper layer sets the
\* message handler, POSTs arrive and their handlers settle, while one
\* request id is used for correlated sends and for the responses sent.
AdapterSendInputs ==
  {[msg |-> [method |-> TRUE, id |-> 1, result |-> Absent, error |-> Absent],
    opts |-> [relatedRequestId |-> 1, token |-> FALSE]],
   [msg |-> [method |-> FALSE, id |-> 1, result |-> "r1", error |-> Absent],
    opts |-> NoOptions]}

AdapterSend(in) ==
  /\ in.msg.method => nCalls < MaxAdapterCalls
  /\ Send(in.msg, in.opts)

AdapterNext ==
  \/ Start
  \/ Close
  \/ \E h \in Handlers : SetMessageHandler(h)
  \/ \E cb \in OnmessageCallbacks : SetOnmessage(cb)
  \/ \E hook \in OncloseHooks : SetOnclose(hook)
  \/ \E body \in PostBodies : PostArrives(body)
  \/ \E p \in PostSlots, threw \in BOOLEAN : HandlerSettles(p, threw)
  \/ \E in \in AdapterSendInputs : AdapterSend(in)
  \/ \E c \in CallNos : TimerFire(c)

AdapterSpec == Init /\ [][AdapterNext]_vars

TypeOK ==
  /\ isConnected \in BOOLEAN
  /\ nCalls \in 0..MaxCalls
  /\ routes \in 0..MaxRoutes
  /\ DOMAIN requestMap \subseteq Ids
  /\ last.op \in {"new", "start", "send", "timer", "close",
                  "setMessageHandler", "set onmessage", "set onclose",
                  "post", "reply"}
  /\ messageHandler \in Handlers \cup {NoHandler}
  /\ oncloseCalls \in 0..MaxRoutes
  /\ onclose \in OncloseHooks \cup {NoCallback}
  /\ \A id \in DOMAIN requestMap : requestMap[id] \in 1..nCalls

\* ======================================================================
\* Properties
\* ======================================================================
Created == 1..nCalls
InMap(c) == \E id \in DOMAIN requestMap : requestMap[id] = c
Settled(c) == calls[c].promise \in {"resolved", "rejected"}
\* the step taken was a send() of a response with this id on a started transport
ResponseStep(id) ==
  /\ isConnected
  /\ last'.op = "send"
  /\ IsResponse(last'.msg)
  /\ last'.msg.id = id
\* the step taken was the expiry of the timer of call c
TimerStep(c) == last'.op = "timer" /\ last'.call = c /\ calls[c].timer = "armed"

\* C1: every pending call has its resolve/reject invoked at most once in
\* total, and its entry leaves the registry through exactly one of: the
\* matching response, the expiry of its timer, close().
C1_SettledAndRemovedOnce ==
  \A c \in Created :
    /\ calls[c].resolves + calls[c].rejects <= 1
    /\ calls[c].removed \in {"none", "response", "timeout", "close"}
    /\ (calls[c].removed = "none") <=> InMap(c)

\* C2: with every armed timer firing unless cleared, the promise of every
\* correlated send() is eventually resolved or rejected.
C2_EveryCallSettles ==
  \A c \in CallNos : (calls[c].promise = "pending") ~> Settled(c)

\* C3: a correlated send() whose id is still in the registry fails with a
\* duplicate-id error and leaves the registry and the earlier call unchanged.
C3_DuplicateIdFails ==
  [][(/\ isConnected
      /\ last'.op = "send"
      /\ last'.msg.method
      /\ last'.opts.relatedRequestId \in DOMAIN requestMap)
     => (/\ last'.outcome = "duplicate id"
         /\ requestMap' = requestMap
         /\ calls' = calls)]_vars

\* C4: a call whose timer expired was rejected exactly once, never resolved,
\* with the timeout error naming its id; right after the expiry its id is
\* not in the registry.
C4_TimeoutRejectsOnce ==
  /\ \A c \in Created :
       calls[c].timer = "fired" =>
         /\ calls[c].rejects = 1
         /\ calls[c].resolves = 0
         /\ calls[c].promise = "rejected"
         /\ calls[c].value = TimeoutError(calls[c].id)
         /\ calls[c].value.id = calls[c].id
  /\ last.op = "timer" => calls[last.call].id \notin DOMAIN requestMap

\* C4 witness: the timer of a call expired while its own entry was in the
\* registry of a started transport (no response, no close before it).
C4_Witness ==
  /\ last.op = "timer"
  /\ isConnected
  /\ calls[last.call].removed = "timeout"
  /\ calls[last.call].rejects = 1

\* C5: close() on a started transport rejects the waiter of every entry of
\* the registry with the closure error naming its id, each exactly once,
\* clears its timer and leaves the registry empty; the calls it drained are
\* never settled again.
C5_CloseRejectsAll ==
  /\ [][(isConnected /\ last'.op = "close")
        => (/\ requestMap' = << >>
            /\ \A id \in DOMAIN requestMap :
                 LET c == requestMap[id]
                 IN /\ calls[c].rejects = 0 /\ calls[c].resolves = 0
                    /\ calls'[c].rejects = 1 /\ calls'[c].resolves = 0
                    /\ calls'[c].promise = "rejected"
                    /\ calls'[c].value = ClosedError(id)
                    /\ calls'[c].timer = "cleared")]_vars
  /\ [](\A c \in Created :
          calls[c].removed = "close" =>
            /\ calls[c].rejects = 1 /\ calls[c].resolves = 0
            /\ calls[c].value = ClosedError(calls[c].id))

\* C5 witness: close() has just drained two outstanding calls.
C5_Witness ==
  /\ last.op = "close" /\ last.outcome = "ok"
  /\ nCalls = 2
  /\ \A c \in Created : calls[c].removed = "close" /\ calls[c].promise = "rejected"
  /\ calls[1].id # calls[2].id

\* C6: a response or a timer expiry for id X changes no call registered
\* under another id and no registry entry of another id; of the waiters it
\* settles exactly the one registered under X (the response) or the one
\* whose timer expired, whatever the order of creation.
C6_CorrelationById ==
  [][\A X \in Ids :
       /\ ResponseStep(X) =>
            /\ \A d \in CallNos : calls[d].id # X => calls'[d] = calls[d]
            /\ \A k \in DOMAIN requestMap \ {X} :
                 k \in DOMAIN requestMap' /\ requestMap'[k] = requestMap[k]
            /\ X \in DOMAIN requestMap =>
                 LET c == requestMap[X]
                 IN /\ \A d \in CallNos \ {c} : calls'[d] = calls[d]
                    /\ last'.call = c
                    /\ (last'.msg.result # Absent \/ last'.msg.error # Falsy)
                         => calls'[c].promise # "pending"
            /\ X \notin DOMAIN requestMap => calls' = calls
       /\ \A c \in CallNos :
            (TimerStep(c) /\ calls[c].id = X) =>
              /\ \A d \in CallNos : calls[d].id # X => calls'[d] = calls[d]
              /\ \A k \in DOMAIN requestMap \ {X} :
                   k \in DOMAIN requestMap' /\ requestMap'[k] = requestMap[k]
              /\ \A d \in CallNos \ {c} :
                   /\ calls'[d].promise = calls[d].promise
                   /\ calls'[d].timer = calls[d].timer
                   /\ calls'[d].rejects = calls[d].rejects
                   /\ calls'[d].resolves = calls[d].resolves
              /\ calls'[c].promise = "rejected"]_vars

\* C6 witness: the response to the second request arrived first and settled
\* it, while the first request, under another id, still waits in the
\* registry with its timer armed.
C6_Witness ==
  /\ last.op = "send" /\ IsResponse(last.msg) /\ last.call = 2
  /\ Settled(2)
  /\ calls[1].id # calls[2].id
  /\ InMap(1) /\ calls[1].promise = "pending" /\ calls[1].timer = "armed"

\* C7: a response with a result that settles a pending call makes its
\* promise yield the result; the id is then no longer in the registry.
C7_ResolvesWithResult ==
  (/\ last.op = "send" /\ IsResponse(last.msg)
   /\ last.msg.result # Absent /\ last.call # 0)
  => /\ calls[last.call].promise = "resolved"
     /\ calls[last.call].value = ResultValue(last.msg.result)
     /\ last.msg.id \notin DOMAIN requestMap

\* C8: a matching response with an error member (and no result) clears the
\* timer, removes the entry and invokes reject, never resolve; a matching
\* response with a result member invokes resolve, never reject.
C8_ErrorRejectsResultResolves ==
  (last.op = "send" /\ IsResponse(last.msg) /\ last.call # 0)
  => LET c == last.call
     IN /\ (last.msg.error # Absent /\ last.msg.result = Absent)
             => /\ calls[c].timer = "cleared"
                /\ ~InMap(c)
                /\ calls[c].rejects = 1 /\ calls[c].resolves = 0
        /\ (last.msg.result # Absent /\ last.msg.error = Absent)
             => calls[c].resolves = 1 /\ calls[c].rejects = 0

\* C9: on a started transport a response whose id has no entry in the
\* registry completes without an exception, invokes no callback and leaves
\* the registry, the timers and every call unchanged.
C9_UnmatchedResponseNoEffect ==
  [][\A X \in Ids :
       (ResponseStep(X) /\ X \notin DOMAIN requestMap)
       => (/\ last'.outcome = "ok"
           /\ last'.call = 0
           /\ calls' = calls
           /\ requestMap' = requestMap
           /\ nCalls' = nCalls
           /\ isConnected' = isConnected)]_vars

\* C9 witness: a response arrived for an id whose call had already timed
\* out, on a started transport, and found no entry.
C9_Witness ==
  /\ isConnected
  /\ last.op = "send" /\ IsResponse(last.msg)
  /\ last.call = 0 /\ last.outcome = "ok"
  /\ \E c \in Created : calls[c].id = last.msg.id /\ calls[c].timer = "fired"
  /\ last.msg.id \notin DOMAIN requestMap

\* a call that close() drained
Drained(c) == c \in Created /\ calls[c].removed = "close"

\* C10 (as claimed): a response sent after close() for an id that close()
\* drained completes without an exception.
C10_LateResponseNoException ==
  (/\ ~isConnected
   /\ last.op = "send" /\ IsResponse(last.msg)
   /\ \E c \in Created : Drained(c) /\ calls[c].id = last.msg.id)
  => last.outcome = "ok"

\* C10 (amended): a response sent for an id that close() drained never
\* invokes a callback of the drained call nor settles it again; while the
\* transport is closed the send() fails with the not-connected error and
\* changes neither the registry nor any call.
C10_LateResponseRejected ==
  [][\A X \in Ids :
       (/\ last'.op = "send" /\ IsResponse(last'.msg) /\ last'.msg.id = X
        /\ \E c \in Created : Drained(c) /\ calls[c].id = X)
       => /\ \A c \in Created : Drained(c) => calls'[c] = calls[c]
          /\ ~isConnected => (/\ last'.outcome = "not connected"
                              /\ calls' = calls
                              /\ requestMap' = requestMap
                              /\ ~isConnected')]_vars

\* C10 witness: after close() drained a call, a response for its id was
\* sent to the closed transport.
C10_Witness ==
  /\ ~isConnected
  /\ last.op = "send" /\ IsResponse(last.msg)
  /\ last.outcome = "not connected"
  /\ \E c \in Created : Drained(c) /\ calls[c].id = last.msg.id

\* C11: send() on a transport that is not connected (before start(), after
\* close()) fails with the not-connected error for every message and every
\* option; it registers no call, arms no timer, settles no waiter and does
\* not invoke the resumption token callback.
C11_SendNotConnectedFails ==
  [][(~isConnected /\ last'.op = "send")
     => (/\ last'.outcome = "not connected"
         /\ ~last'.token
         /\ last'.call = 0
         /\ nCalls' = nCalls
         /\ calls' = calls
         /\ requestMap' = requestMap
         /\ ~isConnected')]_vars

\* C11 witness: after close(), a correlated request carrying a resumption
\* token was sent and failed.
C11_Witness ==
  /\ ~isConnected /\ routes >= 1
  /\ last.op = "send" /\ last.outcome = "not connected"
  /\ last.msg.method /\ last.opts.relatedRequestId # NoId /\ last.opts.token

\* the transport was closed: it was started (a route is bound) and close()
\* has reset isConnected
Closed == ~isConnected /\ routes >= 1

\* C12: once close() has completed, the transport never becomes connected
\* again.
C12_ClosedIsTerminal == [][Closed => ~isConnected']_vars

\* C13: start() on a started transport fails with the already-started
\* error, binds no route and leaves the connection flag, the registry, the
\* calls and the message handler unchanged.
C13_SecondStartFails ==
  [][(isConnected /\ last'.op = "start")
     => (/\ last'.outcome = "already started"
         /\ routes' = routes
         /\ isConnected'
         /\ requestMap' = requestMap
         /\ calls' = calls
         /\ messageHandler' = messageHandler
         /\ inflight' = inflight)]_vars

\* C13 witness: start() failed on a started transport that has a message
\* handler and a pending call.
C13_Witness ==
  /\ last.op = "start" /\ last.outcome = "already started"
  /\ isConnected /\ routes = 1
  /\ messageHandler # NoHandler
  /\ DOMAIN requestMap # {}

\* C14: the first close() on a started transport marks it closed, empties
\* the registry and invokes the onclose hook, when one is assigned, once; a
\* close() on a transport that is not connected changes nothing; the hook
\* runs at most once.
C14_CloseIdempotent ==
  /\ [][(isConnected /\ last'.op = "close")
        => (/\ ~isConnected'
            /\ requestMap' = << >>
            /\ onclose # NoCallback => oncloseCalls' = oncloseCalls + 1
            /\ onclose = NoCallback => oncloseCalls' = oncloseCalls)]_vars
  /\ [][(~isConnected /\ last'.op = "close")
        => UNCHANGED <<isConnected, requestMap, routes, nCalls, calls,
                       messageHandler, inflight, oncloseCalls>>]_vars
  /\ [](oncloseCalls <= 1)

\* C15: a POST carrying a response whose id has an entry in the registry,
\* forwarded by the route handler, settles that call and removes the entry.
C15_InboundResponseSettles ==
  [][(/\ last'.op = "post" /\ last'.outcome = "handler invoked"
      /\ IsResponse(last'.msg)
      /\ last'.msg.id \in DOMAIN requestMap)
     => (/\ last'.msg.id \notin DOMAIN requestMap'
         /\ calls'[requestMap[last'.msg.id]].promise \in {"resolved", "rejected"})]_vars

\* C16: every POST that reaches the handler is answered once: 200 with the
\* acknowledgement exactly when its handler returned, 500 with code -32603
\* and id null exactly when its handler threw; until then it stays in
\* flight, and the outcome of one POST changes no other POST in flight.
C16_OneReplyPerPost ==
  /\ [](last.op = "reply" =>
          /\ last.reply \in {AckReply, InternalErrorReply}
          /\ (last.reply = AckReply) <=> (last.outcome = "handler returned")
          /\ (last.reply = InternalErrorReply) <=> (last.outcome = "handler threw")
          /\ last.reply.status = 500 =>
               last.reply.code = -32603 /\ last.reply.id = "null")
  /\ [](last.op = "post" =>
          \/ /\ last.outcome = "handler invoked"
             /\ last.reply = NoReply
             /\ inflight[last.slot] = BusySlot(last.msg)
          \/ /\ last.outcome = "handler not set"
             /\ last.reply.status = 500)
  /\ [][\A p \in PostSlots :
          inflight[p].busy =>
            \/ inflight'[p] = inflight[p]
            \/ /\ last'.op = "reply" /\ last'.slot = p
               /\ last'.msg = inflight[p].msg
               /\ ~inflight'[p].busy
               /\ \A q \in PostSlots \ {p} : inflight'[q] = inflight[q]]_vars

\* C16 witness: the handler of one POST threw and the POST was answered 500
\* while another POST is still in flight.
C16_Witness ==
  /\ last.op = "reply" /\ last.outcome = "handler threw"
  /\ last.reply = InternalErrorReply
  /\ \E q \in PostSlots : inflight[q].busy

\* C17: a POST arriving while no handler is set is answered 500 with code
\* -32603 and id null; no handler is invoked, nothing is thrown, and the
\* registry, the calls and the connection state are unchanged.
C17_PostWithoutHandler ==
  [][(last'.op = "post" /\ messageHandler = NoHandler)
     => (/\ last'.outcome = "handler not set"
         /\ last'.reply.status = 500
         /\ last'.reply.code = -32603
         /\ last'.reply.id = "null"
         /\ last'.handler = NoHandler
         /\ inflight' = inflight
         /\ requestMap' = requestMap
         /\ calls' = calls
         /\ isConnected' = isConnected
         /\ messageHandler' = NoHandler)]_vars

\* C17 witness: a malformed body was POSTed to a started transport with a
\* pending call before any handler was set.
C17_Witness ==
  /\ last.op = "post" /\ last.msg = MalformedBody
  /\ last.reply = HandlerNotSetReply
  /\ messageHandler = NoHandler
  /\ isConnected /\ DOMAIN requestMap # {}

\* C18: a POST that reaches the route while the transport is not connected
\* is not forwarded to the message handler.
C18_NoForwardWhenClosed ==
  (last.op = "post" /\ ~isConnected) => last.handler = NoHandler

\* C19: a send() on a started transport whose options carry the resumption
\* token callback and a token invokes the callback, whatever the message.
C19_TokenCallbackInvoked ==
  (last.op = "send" /\ last.outcome # "not connected" /\ last.opts.token)
  => last.token

\* C20: no timer callback runs while the transport is closed.
C20_NoTimerAfterClose == ~(last.op = "timer" /\ Closed)

\* C21: a response with a result whose id is the envelope id of the
\* correlated request sent just before it settles that request's call,
\* also when the request's envelope id differs from relatedRequestId.
C21_SettledByEnvelopeId ==
  [][(/\ last.op = "send" /\ last.outcome = "pending"
      /\ last.msg.id # NoId
      /\ ResponseStep(last.msg.id)
      /\ last'.msg.result # Absent)
     => (/\ calls'[last.call].promise = "resolved"
         /\ last'.call = last.call)]_vars

\* C22: for every call the response and the timer expiry exclude each
\* other: a call settled through a response has its timer cleared and never
\* fired, a call whose timer fired was rejected by the timeout alone and has
\* no entry, no call has more than one callback invoked, and a response
\* changes no call whose timer has fired (it changes nothing at all when its
\* id has no entry).
C22_TimerResponseRace ==
  /\ [](\A c \in Created :
          /\ calls[c].resolves + calls[c].rejects <= 1
          /\ calls[c].removed = "response" =>
               calls[c].timer = "cleared" /\ ~InMap(c)
          /\ calls[c].timer = "fired" =>
               /\ calls[c].removed # "response"
               /\ ~InMap(c)
               /\ calls[c].id \in DOMAIN requestMap =>
                    requestMap[calls[c].id] > c
               /\ calls[c].value = TimeoutError(calls[c].id)
               /\ calls[c].resolves = 0)
  /\ [][\A X \in Ids :
          ResponseStep(X) =>
            /\ \A c \in Created : calls[c].timer = "fired" => calls'[c] = calls[c]
            /\ \A c \in Created :
                 (calls[c].timer = "fired" /\ calls[c].id = X
                  /\ X \notin DOMAIN requestMap)
                 => (/\ calls' = calls
                     /\ requestMap' = requestMap
                     /\ last'.call = 0
                     /\ last'.outcome = "ok")]_vars
  /\ [][\A c \in Created :
          calls[c].removed = "response" => ~TimerStep(c)]_vars

\* C22 witness: both orders happened: the first call was settled by its
\* response before its timer could fire, the second call timed out and the
\* response for its id arrived afterwards and found no entry.
C22_Witness ==
  /\ nCalls = 2
  /\ calls[1].removed = "response" /\ calls[1].timer = "cleared"
  /\ calls[1].promise = "resolved"
  /\ calls[2].removed = "timeout" /\ calls[2].timer = "fired"
  /\ last.op = "send" /\ IsResponse(last.msg)
  /\ last.msg.id = calls[2].id /\ last.call = 0

\* C23: the armed timers and the registry entries correspond one to one:
\* a call has its timer armed exactly when the registry holds its entry.
C23_TimersMatchEntries ==
  \A c \in Created : (calls[c].timer = "armed") <=> InMap(c)

\* C24: whenever the transport is not connected (never started, or closed)
\* the registry is empty.
C24_RegistryEmptyUnlessStarted == ~isConnected => requestMap = << >>

\* C24 witness: on a closed transport whose close() drained a call, a
\* correlated request for the same id was sent and registered nothing.
C24_Witness ==
  /\ Closed
  /\ last.op = "send" /\ last.msg.method
  /\ last.opts.relatedRequestId # NoId
  /\ ~last.opts.token
  /\ \E c \in Created : Drained(c) /\ calls[c].id = last.opts.relatedRequestId
  /\ requestMap = << >>

\* C25: on a started transport a send() registers a pending call (a new
\* promise, an armed timer and the registry entry of relatedRequestId)
\* exactly when the message bears a method and relatedRequestId is present;
\* a method-bearing message without relatedRequestId leaves the registry
\* and every call and timer unchanged and its promise resolves at once.
C25_RegisteredIffCorrelated ==
  [][(isConnected /\ last'.op = "send")
     => LET msg == last'.msg
            opts == last'.opts
            registered == /\ nCalls' = nCalls + 1
                          /\ last'.call = nCalls'
                          /\ last'.outcome = "pending"
                          /\ opts.relatedRequestId \in DOMAIN requestMap'
                          /\ requestMap'[opts.relatedRequestId] = nCalls'
                          /\ calls'[nCalls'].timer = "armed"
                          /\ calls'[nCalls'].promise = "pending"
        IN /\ registered <=> (msg.method /\ opts.relatedRequestId # NoId)
           /\ ~(msg.method /\ opts.relatedRequestId # NoId) =>
                /\ nCalls' = nCalls
                /\ DOMAIN requestMap' \subseteq DOMAIN requestMap
           /\ (msg.method /\ opts.relatedRequestId = NoId) =>
                /\ requestMap' = requestMap
                /\ calls' = calls
                /\ last'.outcome = "ok"
                /\ last'.call = 0]_vars

\* C25 witness: a request without relatedRequestId was sent and resolved
\* while an earlier correlated call was still waiting with its timer armed.
C25_Witness ==
  /\ last.op = "send" /\ last.outcome = "ok"
  /\ last.msg.method /\ last.msg.id # NoId
  /\ last.opts.relatedRequestId = NoId
  /\ \E c \in Created : InMap(c) /\ calls[c].promise = "pending"
                        /\ calls[c].timer = "armed"

\* C26: a POST is delivered to the handler most recently given to
\* setMessageHandler and to nothing else, once: with a handler set, that
\* handler is invoked with the body and exactly one POST more is in flight;
\* with no handler set the POST is answered with the 500 handler-not-set
\* envelope and nothing is invoked, also when an onmessage callback is
\* assigned; the onmessage callback is never what a POST is delivered to.
C26_OnlyMessageHandler ==
  /\ [][last'.op = "setMessageHandler" => messageHandler' = last'.handler]_vars
  /\ [][last'.op = "post" =>
          /\ last'.handler = messageHandler
          /\ last'.handler \notin OnmessageCallbacks
          /\ messageHandler' = messageHandler
          /\ messageHandler # NoHandler =>
               /\ last'.outcome = "handler invoked"
               /\ inflight'[last'.slot] = BusySlot(last'.msg)
               /\ ~inflight[last'.slot].busy
               /\ \A q \in PostSlots \ {last'.slot} : inflight'[q] = inflight[q]
          /\ messageHandler = NoHandler =>
               /\ last'.reply = HandlerNotSetReply
               /\ inflight' = inflight]_vars
  /\ [](last.op = "reply" => last.handler = NoHandler)

\* C26 witness: on a started transport with an onmessage callback assigned
\* and no message handler, a POST carrying a response was answered with the
\* 500 handler-not-set envelope and delivered to nothing.
C26_Witness ==
  /\ isConnected
  /\ onmessage \in OnmessageCallbacks
  /\ messageHandler = NoHandler
  /\ last.op = "post" /\ IsResponse(last.msg)
  /\ last.reply = HandlerNotSetReply
  /\ last.handler = NoHandler

\* C27: once initialize() has returned, no step other than a call of
\* clearLogs() removes from the in-memory log an entry added by a later log
\* call, except the push that drops the oldest entry of a log holding 1000
\* entries.
C27_NoEntryDropped ==
  [][\A k \in 1..Len(logEntries) :
       (/\ vault # NoVault
        /\ logEntries[k].message > logHist.initN
        /\ logHist'.op # "clearLogs")
       => \/ \E j \in 1..Len(logEntries') : logEntries'[j] = logEntries[k]
          \/ /\ logHist'.op = "log"
             /\ Len(logEntries) = MaxEntries
             /\ k = 1]_vars

\* C28: at most one vault operation of saveLogs() is awaited at any time,
\* and only while isSaving is set; a log call or clearLogs() whose
\* saveLogs() finds isSaving set starts no vault operation, writes nothing,
\* and appends exactly one deferred save to saveQueue.
C28_SavesExclusive ==
  /\ [](Len(ops) <= 1 /\ (ops # << >> => isSaving))
  /\ [][(logHist'.op \in {"log", "clearLogs"} /\ vault # NoVault /\ isSaving)
        => (/\ logHist'.outcome = "queued"
            /\ ops' = ops
            /\ disk' = disk
            /\ isSaving'
            /\ saveQueue' = Append(saveQueue, "saveLogs"))]_vars
  /\ [][(/\ logHist'.op \in {"log", "initialize", "clearLogs"}
         /\ vault' # NoVault /\ ~isSaving)
        => saveQueue' = saveQueue]_vars

\* C28 witness: while the save started by initialize() awaits its vault
\* operation, two log calls have each deferred one save.
C28_Witness ==
  /\ logHist.op = "log" /\ logHist.outcome = "queued"
  /\ isSaving
  /\ Len(ops) = 1
  /\ Len(saveQueue) = 2

\* C29: whenever the logger is initialized and no save is running or
\* deferred, the last save that ran serialised the entries as the last
\* addEntry (or clearLogs) left them.
C29_LastSaveIsFinal ==
  (vault # NoVault /\ ~isSaving /\ saveQueue = << >>)
  => logHist.serialised = Stringify(logHist.afterAdd)

\* the text the streaming function has put into the editor: what the text
\* holds now between the characters that were before and after the insert
\* position when the loop began
Inserted ==
  SubSeq(doc, streamHist.offset + 1,
         streamHist.offset + Len(doc) - Len(streamHist.doc0))
RECURSIVE Concat(_)
Concat(chunks) ==
  IF chunks = << >> THEN << >> ELSE Head(chunks) \o Concat(Tail(chunks))

\* C30: when the streaming function has returned, the text it inserted into
\* the editor is the concatenation of the received chunks in arrival order,
\* once, and so is the value it returned.
C30_EditorHoldsStreamOnce ==
  streamPc = "returned"
  => /\ Inserted = Concat(streamHist.received)
     /\ streamHist.returned = Concat(streamHist.received)

====
